---------------------------- MODULE Spec2Model ----------------------------
(***************************************************************************)
(* Model of mpz-circuits/src/types.rs: the value / type encoding layer of  *)
(* a boolean-circuit representation.                                       *)
(*                                                                         *)
(* The unit is a library of pure, synchronous functions.  The state of the *)
(* model is the last call made on it: which operation (op), its inputs     *)
(* (arg) and what it returned (ret).  Every action is one call of one      *)
(* public operation, with inputs drawn from bounded sets.                  *)
(*                                                                         *)
(* Representation                                                          *)
(*   Node<Feed>   a natural number, the node id                            *)
(*   ValueType    [tag |-> "Bit"|"U8"|...]  or                             *)
(*                [tag |-> "Array", ty |-> ValueType, len |-> Nat]         *)
(*   BinaryRepr   [tag |-> scalar tag, nodes |-> Seq(Node)]  or            *)
(*                [tag |-> "Array", elems |-> Seq(BinaryRepr)]             *)
(*   Value        [tag |-> "Bit", v |-> BOOLEAN], or                       *)
(*                [tag |-> "U8"|.., v |-> base-256 digits, least           *)
(*                 significant first (W/8 of them)], or                    *)
(*                [tag |-> "Array", elems |-> Seq(Value)]                  *)
(*   Result<T,E>  [kind |-> "Ok", val |-> T], [kind |-> "Err", err |-> E], *)
(*                or [kind |-> "Panic"] when the call unwinds              *)
(*   TypeError    [type |-> "InvalidLength"|"UnexpectedType",              *)
(*                 expected |-> .., actual |-> ..]                         *)
(*                                                                         *)
(* A native unsigned integer of W bits is kept as its W/8 base-256 digits  *)
(* because u32..u128 exceed the integers of TLC; every conversion to and    *)
(* from bits is computed digit by digit, bit by bit.                       *)
(***************************************************************************)
EXTENDS Integers, Sequences, FiniteSets, TLC

VARIABLES op, arg, ret

vars == <<op, arg, ret>>

-----------------------------------------------------------------------------
(* Bounds of the model *)

\* Largest element count of a generated array type.
MaxCount == 2

\* Deepest nesting of generated array types (0: scalars only).
MaxDepth == 2

\* Largest shift offset, and the distance between the node id bases.
MaxOffset == 3

-----------------------------------------------------------------------------
(* Results and errors *)

Ok(v) == [kind |-> "Ok", val |-> v]

Err(e) == [kind |-> "Err", err |-> e]

Panic == [kind |-> "Panic"]

InvalidLength(e, a) == [type |-> "InvalidLength", expected |-> e, actual |-> a]

UnexpectedType(e, a) == [type |-> "UnexpectedType", expected |-> e, actual |-> a]

IsOk(r) == r.kind = "Ok"

IsErr(r) == r.kind = "Err"

IsPanic(r) == r.kind = "Panic"

IsInvalidLength(r, e, a) ==
    /\ r.kind = "Err"
    /\ r.err.type = "InvalidLength"
    /\ r.err.expected = e
    /\ r.err.actual = a

-----------------------------------------------------------------------------
(* Rust slice helpers *)

\* <[T]>::chunks(n) for n > 0: consecutive pieces of n items, the last one
\* shorter when n does not divide the length.  (n = 0 panics: the callers
\* test it before they use Chunks.)
Chunks(s, n) ==
    LET k == (Len(s) + n - 1) \div n
    IN  [i \in 1..k |->
            SubSeq(s, (i - 1) * n + 1, IF i * n < Len(s) THEN i * n ELSE Len(s))]

\* Iterator::zip: stops at the shorter of the two.
ZipLen(a, b) == IF Len(a) < Len(b) THEN Len(a) ELSE Len(b)

\* Iterator::sum over a sequence of naturals.
RECURSIVE SumSeq(_)
SumSeq(s) == IF s = <<>> THEN 0 ELSE Head(s) + SumSeq(Tail(s))

\* Iterator::flat_map(..).collect(): the concatenation of a sequence of
\* sequences, in order.
RECURSIVE Flatten(_)
Flatten(ss) == IF ss = <<>> THEN <<>> ELSE Head(ss) \o Flatten(Tail(ss))

-----------------------------------------------------------------------------
(* ValueType *)

ScalarTags == {"Bit", "U8", "U16", "U32", "U64", "U128"}

Scalar(t) == [tag |-> t]

Array(ty, len) == [tag |-> "Array", ty |-> ty, len |-> len]

\* $len of define_binary_value!
BitLen(tag) ==
    CASE tag = "Bit"  -> 1
      [] tag = "U8"   -> 8
      [] tag = "U16"  -> 16
      [] tag = "U32"  -> 32
      [] tag = "U64"  -> 64
      [] tag = "U128" -> 128

\* ValueType::len
RECURSIVE ValueType_len(_)
ValueType_len(self) ==
    CASE self.tag = "Bit"   -> 1
      [] self.tag = "U8"    -> 8
      [] self.tag = "U16"   -> 16
      [] self.tag = "U32"   -> 32
      [] self.tag = "U64"   -> 64
      [] self.tag = "U128"  -> 128
      [] self.tag = "Array" -> ValueType_len(self.ty) * self.len

\* ValueType::new_array::<T>(len) for a scalar T
new_array(tag, len) == Array(Scalar(tag), len)

\* <[Node; N]>::try_from(&[Node]): Ok exactly when the slice holds N items.
TryIntoArray(nodes, n) ==
    IF Len(nodes) = n THEN Ok(nodes) ELSE Err("TryFromSliceError")

\* ValueType::to_bin_repr, with the Array arm as in the source.
RECURSIVE to_bin_repr(_, _)
\* to_bin_repr with the two fields of InvalidLength exchanged.
to_bin_repr_swapped(self, nodes) ==
    IF Len(nodes) # ValueType_len(self)
    THEN Err(InvalidLength(Len(nodes), ValueType_len(self)))
    ELSE IF self.tag # "Array"
    THEN LET a == TryIntoArray(nodes, BitLen(self.tag))
         IN  IF IsOk(a) THEN Ok([tag |-> self.tag, nodes |-> a.val]) ELSE Panic
    ELSE IF ValueType_len(self.ty) = 0
    THEN Panic
    ELSE LET cs == Chunks(nodes, ValueType_len(self.ty))
             rs == [i \in 1..Len(cs) |-> to_bin_repr(self.ty, cs[i])]
         IN  IF \E i \in 1..Len(cs) : ~IsOk(rs[i])
             THEN Panic
             ELSE Ok([tag |-> "Array", elems |-> [i \in 1..Len(cs) |-> rs[i].val]])

to_bin_repr(self, nodes) ==
    IF Len(nodes) # ValueType_len(self)
    THEN Err(InvalidLength(ValueType_len(self), Len(nodes)))
    ELSE IF self.tag # "Array"
    THEN LET a == TryIntoArray(nodes, BitLen(self.tag))
         IN  IF IsOk(a) THEN Ok([tag |-> self.tag, nodes |-> a.val]) ELSE Panic
    ELSE IF ValueType_len(self.ty) = 0
    THEN Panic    \* nodes.chunks(0): "chunk size must be non-zero"
    ELSE LET cs == Chunks(nodes, ValueType_len(self.ty))
             rs == [i \in 1..Len(cs) |-> to_bin_repr(self.ty, cs[i])]
         IN  IF \E i \in 1..Len(cs) : ~IsOk(rs[i])
             THEN Panic    \* .unwrap() of an Err
             ELSE Ok([tag |-> "Array", elems |-> [i \in 1..Len(cs) |-> rs[i].val]])

-----------------------------------------------------------------------------
(* BinaryRepr *)

\* BinaryRepr::len
RECURSIVE BinaryRepr_len(_)
BinaryRepr_len(self) ==
    CASE self.tag = "Bit"   -> 1
      [] self.tag = "U8"    -> 8
      [] self.tag = "U16"   -> 16
      [] self.tag = "U32"   -> 32
      [] self.tag = "U64"   -> 64
      [] self.tag = "U128"  -> 128
      [] self.tag = "Array" ->
            SumSeq([i \in 1..Len(self.elems) |-> BinaryRepr_len(self.elems[i])])

\* BinaryRepr::value_type: Ok(type), or Panic on v[0] of an empty Vec.
RECURSIVE BinaryRepr_value_type(_)
BinaryRepr_value_type(self) ==
    IF self.tag # "Array"
    THEN Ok(Scalar(self.tag))
    ELSE IF Len(self.elems) = 0
    THEN Panic
    ELSE LET e == BinaryRepr_value_type(self.elems[1])
         IN  IF IsOk(e) THEN Ok(Array(e.val, Len(self.elems))) ELSE Panic

\* BinaryRepr::iter, collected: the node handles in structural order.
RECURSIVE BinaryRepr_iter(_)
\* iter that visits the elements of an array from the last to the first.
BinaryRepr_iter_rev(self) ==
    IF self.tag # "Array"
    THEN self.nodes
    ELSE Flatten([i \in 1..Len(self.elems) |->
            BinaryRepr_iter(self.elems[Len(self.elems) + 1 - i])])

BinaryRepr_iter(self) ==
    IF self.tag # "Array"
    THEN self.nodes
    ELSE Flatten([i \in 1..Len(self.elems) |-> BinaryRepr_iter(self.elems[i])])

-----------------------------------------------------------------------------
(* Node<Feed> *)

\* Node::shift_left(offset): the id moves down by offset.
Node_shift_left(n, offset) == n - offset

\* define_binary_value!::shift_left: every node of the wire array is shifted.
Wire_shift_left(nodes, offset) ==
    [i \in 1..Len(nodes) |-> Node_shift_left(nodes[i], offset)]

\* BinaryRepr::shift_left, as the value of *self after the call.
RECURSIVE shift_left(_, _)
\* shift_left that renumbers a scalar's nodes but not an array's elements.
shift_left_shallow(self, offset) ==
    IF self.tag # "Array"
    THEN [tag |-> self.tag, nodes |-> Wire_shift_left(self.nodes, offset)]
    ELSE self

shift_left(self, offset) ==
    IF self.tag # "Array"
    THEN [tag |-> self.tag, nodes |-> Wire_shift_left(self.nodes, offset)]
    ELSE [tag |-> "Array",
          elems |-> [i \in 1..Len(self.elems) |-> shift_left(self.elems[i], offset)]]

-----------------------------------------------------------------------------
(* Native integers and their bits (itybity) *)

\* 2^n
RECURSIVE Pow2(_)
Pow2(n) == IF n = 0 THEN 1 ELSE 2 * Pow2(n - 1)

\* Bit j (0 = least significant) of the natural d.
BitOf(d, j) == (d \div Pow2(j)) % 2 = 1

\* <uN as IntoBits>::into_lsb0_vec: the W bits of v, least significant first.
Native_into_lsb0_vec(tag, v) ==
    IF tag = "Bit"
    THEN <<v>>
    ELSE [i \in 1..BitLen(tag) |-> BitOf(v[((i - 1) \div 8) + 1], (i - 1) % 8)]

\* The byte whose bit j is bits[from + j], 0 <= j < 8 (a missing bit is 0).
RECURSIVE ByteFromBits(_, _, _)
ByteFromBits(bits, from, j) ==
    IF j = 8
    THEN 0
    ELSE (IF from + j <= Len(bits) /\ bits[from + j] THEN Pow2(j) ELSE 0)
         + ByteFromBits(bits, from, j + 1)

\* <uN as FromBitIterator>::from_lsb0_iter: bits[0] is the least significant.
Native_from_lsb0_iter(tag, bits) ==
    [d \in 1..(BitLen(tag) \div 8) |-> ByteFromBits(bits, (d - 1) * 8 + 1, 0)]

\* a ^ b on u8
RECURSIVE XorByte(_, _, _)
XorByte(a, b, j) ==
    IF j = 8
    THEN 0
    ELSE (IF BitOf(a, j) # BitOf(b, j) THEN Pow2(j) ELSE 0) + XorByte(a, b, j + 1)

\* a ^ b on the native type of a scalar tag
Native_xor(tag, a, b) ==
    IF tag = "Bit"
    THEN a # b
    ELSE [d \in 1..Len(a) |-> XorByte(a[d], b[d], 0)]

-----------------------------------------------------------------------------
(* Value *)

ScalarValue(tag, v) == [tag |-> tag, v |-> v]

ArrayValue(elems) == [tag |-> "Array", elems |-> elems]

\* #[derive(PartialEq)] for Value: the same variant holding equal contents.
RECURSIVE Value_eq(_, _)
Value_eq(a, b) ==
    /\ a.tag = b.tag
    /\ IF a.tag # "Array"
       THEN a.v = b.v
       ELSE /\ Len(a.elems) = Len(b.elems)
            /\ \A i \in 1..Len(a.elems) : Value_eq(a.elems[i], b.elems[i])

\* Whether a result is Ok of a value equal to v.
IsOkValue(r, v) == r.kind = "Ok" /\ Value_eq(r.val, v)

\* Value::value_type: Ok(type), or Panic on v[0] of an empty Vec.
RECURSIVE Value_value_type(_)
Value_value_type(self) ==
    IF self.tag # "Array"
    THEN Ok(Scalar(self.tag))
    ELSE IF Len(self.elems) = 0
    THEN Panic
    ELSE LET e == Value_value_type(self.elems[1])
         IN  IF IsOk(e) THEN Ok(Array(e.val, Len(self.elems))) ELSE Panic

\* <Value as IntoBits>::into_iter_lsb0, collected.
RECURSIVE into_iter_lsb0(_)
into_iter_lsb0(self) ==
    IF self.tag # "Array"
    THEN Native_into_lsb0_vec(self.tag, self.v)
    ELSE Flatten([i \in 1..Len(self.elems) |-> into_iter_lsb0(self.elems[i])])

\* rng.gen() for the native type of a scalar tag: draw number k of the
\* generator seeded with seed.
Rng_gen(tag, seed, k) ==
    IF tag = "Bit"
    THEN (seed + k) % 2 = 1
    ELSE [d \in 1..(BitLen(tag) \div 8) |->
            (seed + 53 * k + (d - 1) * (seed % 4)) % 256]

\* The literal n of a wide native type, n < 256 (69u128 in test_convert_bytes).
Native_literal(tag, n) ==
    [d \in 1..(BitLen(tag) \div 8) |-> IF d = 1 THEN n ELSE 0]

\* The number of scalars of a value of type ty: the draws Value::random makes.
RECURSIVE Draws(_)
Draws(ty) == IF ty.tag # "Array" THEN 1 ELSE Draws(ty.ty) * ty.len

\* Value::random(rng, ty), the generator having made k draws before.
RECURSIVE Value_random(_, _, _)
Value_random(ty, seed, k) ==
    IF ty.tag # "Array"
    THEN ScalarValue(ty.tag, Rng_gen(ty.tag, seed, k))
    ELSE ArrayValue([i \in 1..ty.len |->
            Value_random(ty.ty, seed, k + (i - 1) * Draws(ty.ty))])

-----------------------------------------------------------------------------
(* BinaryRepr::from_bin_repr *)

RECURSIVE from_bin_repr(_, _)
\* from_bin_repr that packs a scalar with bits[0] as the most significant bit.
from_bin_repr_msb0(self, bits) ==
    LET rev == [i \in 1..Len(bits) |-> bits[Len(bits) + 1 - i]]
    IN  IF Len(bits) # BinaryRepr_len(self)
        THEN Err(InvalidLength(BinaryRepr_len(self), Len(bits)))
        ELSE IF self.tag = "Bit"
        THEN Ok(ScalarValue("Bit", bits[1]))
        ELSE IF self.tag # "Array"
        THEN Ok(ScalarValue(self.tag, Native_from_lsb0_iter(self.tag, rev)))
        ELSE IF Len(self.elems) = 0
        THEN Panic
        ELSE IF BinaryRepr_len(self.elems[1]) = 0
        THEN Panic
        ELSE LET cs == Chunks(bits, BinaryRepr_len(self.elems[1]))
                 n  == ZipLen(self.elems, cs)
                 rs == [i \in 1..n |-> from_bin_repr(self.elems[i], cs[i])]
             IN  IF \E i \in 1..n : ~IsOk(rs[i])
                 THEN Panic
                 ELSE Ok(ArrayValue([i \in 1..n |-> rs[i].val]))

\* from_bin_repr that decodes every element of an array from the first chunk.
from_bin_repr_first(self, bits) ==
    IF Len(bits) # BinaryRepr_len(self)
    THEN Err(InvalidLength(BinaryRepr_len(self), Len(bits)))
    ELSE IF self.tag = "Bit"
    THEN Ok(ScalarValue("Bit", bits[1]))
    ELSE IF self.tag # "Array"
    THEN Ok(ScalarValue(self.tag, Native_from_lsb0_iter(self.tag, bits)))
    ELSE IF Len(self.elems) = 0
    THEN Panic
    ELSE IF BinaryRepr_len(self.elems[1]) = 0
    THEN Panic
    ELSE LET cs == Chunks(bits, BinaryRepr_len(self.elems[1]))
             n  == ZipLen(self.elems, cs)
             rs == [i \in 1..n |-> from_bin_repr(self.elems[i], cs[1])]
         IN  IF \E i \in 1..n : ~IsOk(rs[i])
             THEN Panic
             ELSE Ok(ArrayValue([i \in 1..n |-> rs[i].val]))

from_bin_repr(self, bits) ==
    IF Len(bits) # BinaryRepr_len(self)
    THEN Err(InvalidLength(BinaryRepr_len(self), Len(bits)))
    ELSE IF self.tag = "Bit"
    THEN Ok(ScalarValue("Bit", bits[1]))
    ELSE IF self.tag # "Array"
    THEN Ok(ScalarValue(self.tag, Native_from_lsb0_iter(self.tag, bits)))
    ELSE IF Len(self.elems) = 0
    THEN Panic    \* v[0]: index out of bounds
    ELSE IF BinaryRepr_len(self.elems[1]) = 0
    THEN Panic    \* bits.chunks(0)
    ELSE LET cs == Chunks(bits, BinaryRepr_len(self.elems[1]))
             n  == ZipLen(self.elems, cs)
             rs == [i \in 1..n |-> from_bin_repr(self.elems[i], cs[i])]
         IN  IF \E i \in 1..n : ~IsOk(rs[i])
             THEN Panic    \* .unwrap() of an Err
             ELSE Ok(ArrayValue([i \in 1..n |-> rs[i].val]))

-----------------------------------------------------------------------------
(* impl BitXor for Value: the four operand combinations *)

\* .collect::<Result<Vec<_>, _>>() over results produced in order: the first
\* one that is not Ok ends the collection (a panic unwinds, an Err is
\* returned and the later pairs are never combined).
RECURSIVE CollectResults(_, _)
CollectResults(rs, i) ==
    IF i > Len(rs)
    THEN Ok([k \in 1..Len(rs) |-> rs[k].val])
    ELSE IF IsOk(rs[i]) THEN CollectResults(rs, i + 1) ELSE rs[i]

\* Value::Array(results.collect::<Result<Vec<_>, _>>()?)
CollectArray(rs) ==
    LET c == CollectResults(rs, 1)
    IN  IF IsOk(c) THEN Ok(ArrayValue(c.val)) ELSE c

\* The fall-through arm: Err(UnexpectedType{expected: self.value_type(),
\* actual: rhs.value_type()}); value_type() may panic first.
XorMismatch(self, rhs) ==
    LET e == Value_value_type(self)
        a == Value_value_type(rhs)
    IN  IF IsOk(e) /\ IsOk(a) THEN Err(UnexpectedType(e.val, a.val)) ELSE Panic

\* impl BitXor<&Value> for &Value
RECURSIVE bitxor_ref_ref(_, _)
\* bitxor that combines every element of self with the first element of rhs.
bitxor_ref_ref_slip(self, rhs) ==
    IF self.tag = rhs.tag /\ self.tag # "Array"
    THEN Ok(ScalarValue(self.tag, Native_xor(self.tag, self.v, rhs.v)))
    ELSE IF self.tag = "Array" /\ rhs.tag = "Array"
    THEN CollectArray(
            [i \in 1..ZipLen(self.elems, rhs.elems) |->
                bitxor_ref_ref(self.elems[i], rhs.elems[1])])
    ELSE XorMismatch(self, rhs)

\* bitxor that takes arrays of different lengths for a type mismatch.
bitxor_ref_ref_strict(self, rhs) ==
    IF self.tag = rhs.tag /\ self.tag # "Array"
    THEN Ok(ScalarValue(self.tag, Native_xor(self.tag, self.v, rhs.v)))
    ELSE IF self.tag = "Array" /\ rhs.tag = "Array"
            /\ Len(self.elems) = Len(rhs.elems)
    THEN CollectArray(
            [i \in 1..ZipLen(self.elems, rhs.elems) |->
                bitxor_ref_ref(self.elems[i], rhs.elems[i])])
    ELSE XorMismatch(self, rhs)

bitxor_ref_ref(self, rhs) ==
    IF self.tag = rhs.tag /\ self.tag # "Array"
    THEN Ok(ScalarValue(self.tag, Native_xor(self.tag, self.v, rhs.v)))
    ELSE IF self.tag = "Array" /\ rhs.tag = "Array"
    THEN CollectArray(
            [i \in 1..ZipLen(self.elems, rhs.elems) |->
                bitxor_ref_ref(self.elems[i], rhs.elems[i])])
    ELSE XorMismatch(self, rhs)

\* impl BitXor for Value
bitxor(self, rhs) ==
    IF self.tag = rhs.tag /\ self.tag # "Array"
    THEN Ok(ScalarValue(self.tag, Native_xor(self.tag, self.v, rhs.v)))
    ELSE IF self.tag = "Array" /\ rhs.tag = "Array"
    THEN CollectArray(
            [i \in 1..ZipLen(self.elems, rhs.elems) |->
                bitxor_ref_ref(self.elems[i], rhs.elems[i])])
    ELSE XorMismatch(self, rhs)

\* impl BitXor<&Value> for Value
bitxor_val_ref(self, rhs) ==
    IF self.tag = rhs.tag /\ self.tag # "Array"
    THEN Ok(ScalarValue(self.tag, Native_xor(self.tag, self.v, rhs.v)))
    ELSE IF self.tag = "Array" /\ rhs.tag = "Array"
    THEN CollectArray(
            [i \in 1..ZipLen(self.elems, rhs.elems) |->
                bitxor_ref_ref(self.elems[i], rhs.elems[i])])
    ELSE XorMismatch(self, rhs)

\* impl BitXor<Value> for &Value
bitxor_ref_val(self, rhs) ==
    IF self.tag = rhs.tag /\ self.tag # "Array"
    THEN Ok(ScalarValue(self.tag, Native_xor(self.tag, self.v, rhs.v)))
    ELSE IF self.tag = "Array" /\ rhs.tag = "Array"
    THEN CollectArray(
            [i \in 1..ZipLen(self.elems, rhs.elems) |->
                bitxor_ref_ref(self.elems[i], rhs.elems[i])])
    ELSE XorMismatch(self, rhs)

-----------------------------------------------------------------------------
(* TryFrom<Value> for the native types *)

\* <$ty>::default(): false, or 0.
Native_default(tag) ==
    IF tag = "Bit" THEN FALSE ELSE [d \in 1..(BitLen(tag) \div 8) |-> 0]

\* impl TryFrom<Value> for $ty.  The error arm calls value.value_type(),
\* which may panic first.
try_from(tag, value) ==
    IF value.tag = tag
    THEN Ok(value.v)
    ELSE LET a == Value_value_type(value)
         IN  IF IsOk(a) THEN Err(UnexpectedType(Scalar(tag), a.val)) ELSE Panic

\* The loop of TryFrom<Value> for [$ty; N], from element i on:
\* values[i] = v.try_into()?  converts the element first (`?` returns its
\* error) and then indexes values, which has N slots.
RECURSIVE try_from_array_loop(_, _, _, _, _)
try_from_array_loop(tag, N, v, i, values) ==
    IF i > Len(v)
    THEN Ok(values)
    ELSE LET r == try_from(tag, v[i])
         IN  IF ~IsOk(r)
             THEN r
             ELSE IF i > N
             THEN Panic    \* values[i]: index out of bounds
             ELSE try_from_array_loop(tag, N, v, i + 1,
                                      [values EXCEPT ![i] = r.val])

\* impl<const N: usize> TryFrom<Value> for [$ty; N]
try_from_array(tag, N, value) ==
    IF value.tag = "Array"
    THEN try_from_array_loop(tag, N, value.elems, 1,
                             [i \in 1..N |-> Native_default(tag)])
    ELSE Err(UnexpectedType(Array(Scalar(tag), N), Value_value_type(value).val))

\* impl TryFrom<Value> for Vec<$ty>
try_from_vec(tag, value) ==
    IF value.tag = "Array"
    THEN CollectResults([i \in 1..Len(value.elems) |-> try_from(tag, value.elems[i])], 1)
    ELSE Err(UnexpectedType(Array(Scalar(tag), 0), Value_value_type(value).val))

-----------------------------------------------------------------------------
(* impl_convert_bytes: wire values as sequences of nodes, index 1 = bit 0 *)

WideTags == {"U8", "U16", "U32", "U64", "U128"}

\* $len of impl_convert_bytes!: the number of bytes of a wire type
ByteLen(tag) ==
    CASE tag = "U8"   -> 1
      [] tag = "U16"  -> 2
      [] tag = "U32"  -> 4
      [] tag = "U64"  -> 8
      [] tag = "U128" -> 16

\* to_be_bytes without the reversal of the byte order.
to_be_bytes_noswap(tag, self) ==
    [i \in 1..ByteLen(tag) |-> [j \in 1..8 |-> self[(i - 1) * 8 + (j - 1) + 1]]]

\* $ty::to_be_bytes: from_fn(|i| U8(from_fn(|j| self.0[($len - i - 1) * 8 + j])))
to_be_bytes(tag, self) ==
    [i \in 1..ByteLen(tag) |->
        [j \in 1..8 |-> self[(ByteLen(tag) - (i - 1) - 1) * 8 + (j - 1) + 1]]]

\* from_be_bytes without the reversal of the byte order.
from_be_bytes_noswap(tag, bytes) ==
    [i \in 1..(ByteLen(tag) * 8) |-> bytes[((i - 1) \div 8) + 1][((i - 1) % 8) + 1]]

\* $ty::from_be_bytes: from_fn(|i| bytes[$len - (i / 8) - 1].0[i % 8])
from_be_bytes(tag, bytes) ==
    [i \in 1..(ByteLen(tag) * 8) |->
        bytes[(ByteLen(tag) - ((i - 1) \div 8) - 1) + 1][((i - 1) % 8) + 1]]

\* $ty::to_le_bytes: from_fn(|i| U8(from_fn(|j| self.0[i * 8 + j])))
to_le_bytes(tag, self) ==
    [i \in 1..ByteLen(tag) |-> [j \in 1..8 |-> self[(i - 1) * 8 + (j - 1) + 1]]]

\* $ty::from_le_bytes: from_fn(|i| bytes[i / 8].0[i % 8])
from_le_bytes(tag, bytes) ==
    [i \in 1..(ByteLen(tag) * 8) |-> bytes[((i - 1) \div 8) + 1][((i - 1) % 8) + 1]]

-----------------------------------------------------------------------------
(* impl ToBinaryRepr for Vec<$ty> *)

\* <Vec<$ty> as ToBinaryRepr>::new_bin_repr
Vec_new_bin_repr(tag, nodes) ==
    LET expected_len ==
            (Len(nodes) \div BitLen(tag))
            + (IF Len(nodes) % BitLen(tag) # 0 THEN 1 ELSE 0)
    IN  IF Len(nodes) # expected_len
        THEN Err(InvalidLength(expected_len, Len(nodes)))
        ELSE LET cs == Chunks(nodes, BitLen(tag))
                 as == [i \in 1..Len(cs) |-> TryIntoArray(cs[i], BitLen(tag))]
             IN  IF \E i \in 1..Len(cs) : ~IsOk(as[i])
                 THEN Panic    \* .unwrap() of a TryFromSliceError
                 ELSE Ok([i \in 1..Len(cs) |-> [tag |-> tag, nodes |-> as[i].val]])

-----------------------------------------------------------------------------
(* Inputs *)

\* The array types of nesting depth at most d over the six scalars, with
\* element counts 0..MaxCount.
RECURSIVE TypesUpTo(_)
TypesUpTo(d) ==
    IF d = 0
    THEN {Scalar(t) : t \in ScalarTags}
    ELSE LET S == TypesUpTo(d - 1)
         IN  S \cup {Array(ty, n) : ty \in S, n \in 0..MaxCount}

\* The types the operations are called on: the generated ones and the
\* example of the specification, [u32; 4].
ValueTypes == TypesUpTo(MaxDepth) \cup {new_array("U32", 4)}

\* Node id bases: the builder hands out consecutive ids from some base.
NodeBases == {MaxOffset, 2 * MaxOffset}

\* n freshly allocated nodes: consecutive ids from base.
Feed(base, n) == [i \in 1..n |-> base + i - 1]

\* The slice lengths tried against a required length.
LensNear(n) == {m \in {0, 1, n - 1, n, n + 1} : m >= 0}

\* Seeds of the generator for scalar values: every u8 is drawn.
ScalarSeeds == 0..255

\* Seeds of the generator for array values.
ArraySeeds == {0, 5, 12, 177, 255}

\* Pairs of seeds for the two operands of ^.
SeedPairs == {<<12, 5>>, <<177, 255>>}

\* Bit patterns for decoding: bit i (from 1) is set when p divides i + 1.
BitPatterns == {1, 2, 3}

PatternBits(n, p) == [i \in 1..n |-> (i + 1) % p = 0]

\* For an array type ta of arrays: the arrays, of any count, of arrays that
\* differ from the elements of ta in their scalar or in their count.
NestedPartners(ta) ==
    IF ta.ty.tag # "Array"
    THEN {}
    ELSE {Array(Array(Scalar(s), ta.ty.len), n) : s \in ScalarTags, n \in 0..MaxCount}
            \cup {Array(Array(ta.ty.ty, m), n) : m \in 0..MaxCount, n \in 0..MaxCount}

\* The types of the right operand tried against a left operand of type ta:
\* the same type, every scalar and flat array, and for an array ta the arrays
\* of the same count over other elements, of other counts over the same
\* element, and the nested partners.  For a scalar ta, every type.
XorPartners(ta) ==
    IF ta.tag # "Array"
    THEN ValueTypes
    ELSE {ta} \cup TypesUpTo(1)
            \cup {Array(e, ta.len) : e \in TypesUpTo(1)}
            \cup {Array(ta.ty, n) : n \in 0..MaxCount}
            \cup NestedPartners(ta)

\* The representation the builder makes for type t from fresh nodes.
ReprOf(t, base) == to_bin_repr(t, Feed(base, ValueType_len(t)))

\* The values narrowed to native types: a value of type t, or (Value::Array
\* holds a Vec<Value>, so its elements need not agree) the array of a value
\* of type t followed by a scalar of variant b.
NarrowWith == ScalarTags \cup {"none"}

NarrowInput(t, b) ==
    IF b = "none"
    THEN Value_random(t, 12, 0)
    ELSE ArrayValue(<<Value_random(t, 12, 0), Value_random(Scalar(b), 177, 1)>>)

-----------------------------------------------------------------------------
(* Actions: one call each, made when no call is in progress *)

Init ==
    /\ op = "idle"
    /\ arg = <<>>
    /\ ret = <<>>

\* t.to_bin_repr(nodes)
ToBinRepr ==
    /\ op = "idle"
    /\ \E t \in ValueTypes, base \in NodeBases :
         \E n \in LensNear(ValueType_len(t)) :
           LET nodes == Feed(base, n)
           IN  /\ op' = "to_bin_repr"
               /\ arg' = [ty |-> t, nodes |-> nodes]
               /\ ret' = to_bin_repr(t, nodes)

\* r.iter(), called twice on a representation built by to_bin_repr from a
\* slice of the required length
Iter ==
    /\ op = "idle"
    /\ \E t \in ValueTypes, base \in NodeBases :
         LET nodes == Feed(base, ValueType_len(t))
             r     == to_bin_repr(t, nodes)
         IN  /\ IsOk(r)
             /\ op' = "iter"
             /\ arg' = [ty |-> t, nodes |-> nodes, repr |-> r.val]
             /\ ret' = [first  |-> BinaryRepr_iter(r.val),
                        second |-> BinaryRepr_iter(r.val)]

\* r.shift_left(offset) on a representation built by to_bin_repr
ShiftLeft ==
    /\ op = "idle"
    /\ \E t \in ValueTypes, base \in NodeBases, offset \in 0..MaxOffset :
         LET r == ReprOf(t, base)
         IN  /\ IsOk(r)
             /\ op' = "shift_left"
             /\ arg' = [repr |-> r.val, offset |-> offset]
             /\ ret' = shift_left(r.val, offset)

\* r.from_bin_repr(bits) on a representation built by to_bin_repr
FromBinRepr ==
    /\ op = "idle"
    /\ \E t \in ValueTypes, p \in BitPatterns :
         LET r == ReprOf(t, MaxOffset)
         IN  /\ IsOk(r)
             /\ \E n \in LensNear(BinaryRepr_len(r.val)) :
                  /\ op' = "from_bin_repr"
                  /\ arg' = [repr |-> r.val, bits |-> PatternBits(n, p)]
                  /\ ret' = from_bin_repr(r.val, PatternBits(n, p))

\* r.from_bin_repr(&v.into_iter_lsb0().collect()) for a value v of the type
\* r was built for
DecodeValue ==
    /\ op = "idle"
    /\ \E t \in ValueTypes :
         \E seed \in (IF t.tag = "Array" THEN ArraySeeds ELSE ScalarSeeds) :
           LET r == ReprOf(t, MaxOffset)
               v == Value_random(t, seed, 0)
           IN  /\ IsOk(r)
               /\ op' = "decode_value"
               /\ arg' = [value |-> v, repr |-> r.val, bits |-> into_iter_lsb0(v)]
               /\ ret' = from_bin_repr(r.val, into_iter_lsb0(v))

\* v.value_type().to_bin_repr(nodes), for fresh nodes of the length of the
\* type, then r.from_bin_repr(&v.into_iter_lsb0().collect()); a panic or an
\* error of a step ends the sequence.
RoundTrip ==
    /\ op = "idle"
    /\ \E t \in ValueTypes, seed \in ArraySeeds, base \in NodeBases :
         LET v  == Value_random(t, seed, 0)
             ty == Value_value_type(v)
             r  == IF IsOk(ty) THEN ReprOf(ty.val, base) ELSE Panic
         IN  /\ op' = "round_trip"
             /\ arg' = [value |-> v, base |-> base, bits |-> into_iter_lsb0(v)]
             /\ ret' = [repr  |-> r,
                        value |-> IF IsOk(r)
                                  THEN from_bin_repr(r.val, into_iter_lsb0(v))
                                  ELSE r]

\* a ^ b, through each of the four impls
Xor ==
    /\ op = "idle"
    /\ \E ta \in ValueTypes, sp \in SeedPairs :
       \E tb \in XorPartners(ta) :
         LET a == Value_random(ta, sp[1], 0)
             b == Value_random(tb, sp[2], 0)
         IN  /\ op' = "bitxor"
             /\ arg' = [self |-> a, rhs |-> b]
             /\ ret' = [val_val |-> bitxor(a, b),
                        ref_ref |-> bitxor_ref_ref(a, b),
                        val_ref |-> bitxor_val_ref(a, b),
                        ref_val |-> bitxor_ref_val(a, b)]

\* x.to_be_bytes(), x.to_le_bytes() and the conversions back
ConvertBytes ==
    /\ op = "idle"
    /\ \E tag \in WideTags, base \in NodeBases :
       \E a \in {Rng_gen(tag, seed, 0) : seed \in ArraySeeds}
                   \cup {Native_literal(tag, 69)} :
         LET x == Feed(base, BitLen(tag))
         IN  /\ op' = "convert_bytes"
             /\ arg' = [tag |-> tag, x |-> x, a |-> a]
             /\ ret' = [be |-> to_be_bytes(tag, x),
                        le |-> to_le_bytes(tag, x),
                        from_be |-> from_be_bytes(tag, to_be_bytes(tag, x)),
                        from_le |-> from_le_bytes(tag, to_le_bytes(tag, x))]

\* Vec::<T>::new_bin_repr(nodes)
VecNewBinRepr ==
    /\ op = "idle"
    /\ \E tag \in ScalarTags, base \in NodeBases, k \in 0..MaxCount :
         \E n \in LensNear(k * BitLen(tag)) :
           /\ op' = "vec_new_bin_repr"
           /\ arg' = [tag |-> tag, nodes |-> Feed(base, n)]
           /\ ret' = Vec_new_bin_repr(tag, Feed(base, n))

\* <$ty>::try_from(value)
TryFromScalar ==
    /\ op = "idle"
    /\ \E tag \in ScalarTags, t \in ValueTypes, b \in NarrowWith :
         LET value == NarrowInput(t, b)
         IN  /\ op' = "try_from"
             /\ arg' = [tag |-> tag, value |-> value]
             /\ ret' = try_from(tag, value)

\* <[$ty; N]>::try_from(value)
TryFromArray ==
    /\ op = "idle"
    /\ \E tag \in ScalarTags, N \in 0..MaxCount, t \in ValueTypes, b \in NarrowWith :
         LET value == NarrowInput(t, b)
         IN  /\ op' = "try_from_array"
             /\ arg' = [tag |-> tag, N |-> N, value |-> value]
             /\ ret' = try_from_array(tag, N, value)

\* Vec::<$ty>::try_from(value)
TryFromVec ==
    /\ op = "idle"
    /\ \E tag \in ScalarTags, t \in ValueTypes, b \in NarrowWith :
         LET value == NarrowInput(t, b)
         IN  /\ op' = "try_from_vec"
             /\ arg' = [tag |-> tag, value |-> value]
             /\ ret' = try_from_vec(tag, value)

\* The caller takes the result.
Return ==
    /\ op # "idle"
    /\ op' = "idle"
    /\ arg' = <<>>
    /\ ret' = <<>>

\* The calls on types, representations and wire values.
Next ==
    \/ ToBinRepr
    \/ Iter
    \/ ShiftLeft
    \/ FromBinRepr
    \/ DecodeValue
    \/ RoundTrip
    \/ ConvertBytes
    \/ VecNewBinRepr
    \/ Return

Spec == Init /\ [][Next]_vars

\* The calls on pairs of values.
NextXor ==
    \/ Xor
    \/ Return

SpecXor == Init /\ [][NextXor]_vars

\* The narrowing conversions of values to native types.
NextTryFrom ==
    \/ TryFromScalar
    \/ TryFromArray
    \/ TryFromVec
    \/ Return

SpecTryFrom == Init /\ [][NextTryFrom]_vars

-----------------------------------------------------------------------------
(* Properties of decoding and encoding *)

\* C1 -- Scalar round-trip: for a value v of a scalar type, decoding the
\* LSB-first bit sequence of v (into_iter_lsb0) with from_bin_repr on a
\* representation of the matching scalar shape returns Ok of a value equal to
\* v; the bits of U8(177) are [1,0,0,0,1,1,0,1].
C1_ScalarRoundTrip ==
    (op = "decode_value" /\ arg.value.tag # "Array") =>
        /\ arg.repr.tag = arg.value.tag
        /\ Len(arg.bits) = BitLen(arg.value.tag)
        /\ IsOkValue(ret, arg.value)
        /\ Value_eq(arg.value, ScalarValue("U8", <<177>>)) =>
                arg.bits = <<TRUE, FALSE, FALSE, FALSE, TRUE, TRUE, FALSE, TRUE>>

\* The bits [1,0,0,0,1,1,0,1] have been decoded to U8(177).
C1_Witness ==
    /\ op = "decode_value"
    /\ arg.bits = <<TRUE, FALSE, FALSE, FALSE, TRUE, TRUE, FALSE, TRUE>>
    /\ IsOkValue(ret, ScalarValue("U8", <<177>>))
    /\ arg.repr.tag = "U8"

\* C2 -- For every type t and node slice with nodes.len() # t.len(),
\* t.to_bin_repr(nodes) returns Err(InvalidLength{expected: t.len(), actual:
\* nodes.len()}) and no representation; [u32; 4] has len 128 and 127 nodes
\* fail with InvalidLength{expected: 128, actual: 127}.
C2_LengthMismatch ==
    op = "to_bin_repr" =>
        /\ Len(arg.nodes) # ValueType_len(arg.ty) =>
                IsInvalidLength(ret, ValueType_len(arg.ty), Len(arg.nodes))
        /\ (arg.ty = new_array("U32", 4) /\ Len(arg.nodes) = 127) =>
                ret = Err(InvalidLength(128, 127))

\* 127 nodes were offered for [u32; 4] and refused.
C2_Witness ==
    /\ op = "to_bin_repr"
    /\ arg.ty = new_array("U32", 4)
    /\ Len(arg.nodes) = 127
    /\ IsErr(ret)

\* C3 -- Length consistency: for any type t (arrays of count 0 and arrays
\* of elements of bit length 0 included) and node slice with nodes.len() =
\* t.len(), t.to_bin_repr(nodes) returns Ok(r) with r.len() = t.len() =
\* nodes.len().
C3_LengthConsistency ==
    (op = "to_bin_repr" /\ Len(arg.nodes) = ValueType_len(arg.ty)) =>
        /\ IsOk(ret)
        /\ BinaryRepr_len(ret.val) = ValueType_len(arg.ty)
        /\ BinaryRepr_len(ret.val) = Len(arg.nodes)

\* C4 -- r.from_bin_repr(bits) returns Err(InvalidLength{expected: r.len(),
\* actual: bits.len()}) exactly when bits.len() # r.len(), and Ok(value) when
\* bits.len() = r.len().
C4_DecodeLength ==
    op = "from_bin_repr" =>
        IF Len(arg.bits) # BinaryRepr_len(arg.repr)
        THEN IsInvalidLength(ret, BinaryRepr_len(arg.repr), Len(arg.bits))
        ELSE IsOk(ret)

-----------------------------------------------------------------------------
(* Properties of ^ on values *)

\* Two values of identical shape: the same variant and, for arrays, the same
\* length and pairwise identical element shapes.
RECURSIVE SameShape(_, _)
SameShape(a, b) ==
    /\ a.tag = b.tag
    /\ a.tag = "Array" =>
          /\ Len(a.elems) = Len(b.elems)
          /\ \A i \in 1..Len(a.elems) : SameShape(a.elems[i], b.elems[i])

\* c has the shape of a and b, and every bit of every scalar leaf of c is
\* set exactly when the corresponding bits of a and b differ.
RECURSIVE IsLeafwiseXor(_, _, _)
IsLeafwiseXor(c, a, b) ==
    /\ c.tag = a.tag
    /\ CASE a.tag = "Bit" -> c.v = (a.v # b.v)
         [] a.tag = "Array" ->
              /\ Len(c.elems) = Len(a.elems)
              /\ \A i \in 1..Len(a.elems) :
                    IsLeafwiseXor(c.elems[i], a.elems[i], b.elems[i])
         [] OTHER ->
              /\ Len(c.v) = Len(a.v)
              /\ \A d \in 1..Len(a.v) : \A j \in 0..7 :
                    BitOf(c.v[d], j) = (BitOf(a.v[d], j) # BitOf(b.v[d], j))

\* C5 -- XOR correctness: for two values a and b of identical shape, a ^ b
\* returns Ok of a value of that shape whose every scalar leaf is the bitwise
\* XOR of the corresponding leaves of a and b; U8(12) ^ U8(5) = Ok(U8(9)); the
\* four owned/borrowed operand combinations give the same result.
C5_XorCorrect ==
    (op = "bitxor" /\ SameShape(arg.self, arg.rhs)) =>
        /\ IsOk(ret.val_val)
        /\ IsLeafwiseXor(ret.val_val.val, arg.self, arg.rhs)
        /\ IsOkValue(ret.ref_ref, ret.val_val.val)
        /\ IsOkValue(ret.val_ref, ret.val_val.val)
        /\ IsOkValue(ret.ref_val, ret.val_val.val)
        /\ (Value_eq(arg.self, ScalarValue("U8", <<12>>))
                /\ Value_eq(arg.rhs, ScalarValue("U8", <<5>>))) =>
              IsOkValue(ret.val_val, ScalarValue("U8", <<9>>))

\* Two arrays of arrays with two elements each, differing in a leaf, have
\* been combined.
C5_Witness ==
    /\ op = "bitxor"
    /\ SameShape(arg.self, arg.rhs)
    /\ arg.self.tag = "Array"
    /\ Len(arg.self.elems) = 2
    /\ arg.self.elems[2].tag = "Array"
    /\ Len(arg.self.elems[2].elems) = 2
    /\ arg.self.elems[2].elems[2].tag = "U16"
    /\ arg.self.elems[2].elems[2].v # arg.rhs.elems[2].elems[2].v
    /\ arg.self.elems[2].elems[2].v # arg.self.elems[1].elems[1].v
    /\ IsOk(ret.val_val)

\* Whether r is Err(UnexpectedType{expected: a.value_type(), actual:
\* b.value_type()}).
IsUnexpectedTypeOf(r, a, b) ==
    /\ r.kind = "Err"
    /\ r.err.type = "UnexpectedType"
    /\ Value_value_type(a) = Ok(r.err.expected)
    /\ Value_value_type(b) = Ok(r.err.actual)

\* C6 -- For two values a and b whose top-level variants differ (a scalar
\* against an array of any length, the empty array included), a ^ b returns
\* Err(UnexpectedType{expected: a.value_type(), actual: b.value_type()}); and
\* when two arrays hold a pair of corresponding elements whose variants
\* differ, their XOR returns an UnexpectedType error.
C6_XorMismatch ==
    op = "bitxor" =>
        /\ arg.self.tag # arg.rhs.tag =>
              IsUnexpectedTypeOf(ret.val_val, arg.self, arg.rhs)
        /\ (/\ arg.self.tag = "Array"
            /\ arg.rhs.tag = "Array"
            /\ \E i \in 1..ZipLen(arg.self.elems, arg.rhs.elems) :
                  arg.self.elems[i].tag # arg.rhs.elems[i].tag) =>
              (ret.val_val.kind = "Err" /\ ret.val_val.err.type = "UnexpectedType")

-----------------------------------------------------------------------------
(* Properties of the byte-order conversions *)

\* C7 -- Endianness round-trip at node-identity level: for a wire value x
\* of U8..U128, from_be_bytes(x.to_be_bytes()) and
\* from_le_bytes(x.to_le_bytes()) hold the same node as x at every bit
\* position.
C7_BytesRoundTrip ==
    op = "convert_bytes" =>
        /\ Len(ret.from_be) = Len(arg.x)
        /\ Len(ret.from_le) = Len(arg.x)
        /\ \A p \in 1..Len(arg.x) :
              /\ ret.from_be[p] = arg.x[p]
              /\ ret.from_le[p] = arg.x[p]

\* A u128 wire value, whose big- and little-endian bytes differ, has been
\* converted and rebuilt.
C7_Witness ==
    /\ op = "convert_bytes"
    /\ arg.tag = "U128"
    /\ ret.be[1] # ret.le[1]
    /\ ret.from_be = arg.x

\* The bit that the evaluation of a circuit puts on node n, the input's
\* nodes x carrying the bits of the native value a, least significant first.
NodeBit(tag, x, a, n) ==
    Native_into_lsb0_vec(tag, a)[CHOOSE p \in 1..Len(x) : x[p] = n]

\* The u8 that the evaluation decodes from the eight nodes of an output byte.
EvalByte(tag, x, a, byte) ==
    ByteFromBits([j \in 1..8 |-> NodeBit(tag, x, a, byte[j])], 1, 0)

\* Native uN::to_le_bytes and uN::to_be_bytes of a, whose base-256 digits
\* are kept least significant first.
Native_to_le_bytes(a) == [i \in 1..Len(a) |-> a[i]]

Native_to_be_bytes(a) == [i \in 1..Len(a) |-> a[Len(a) + 1 - i]]

\* C8 -- Byte placement: for a wire value x of M bytes, bit j of byte i of
\* x.to_be_bytes() is the node at position (M-i-1)*8 + j of x and bit j of
\* byte i of x.to_le_bytes() is the node at position i*8 + j, for 0 <= i < M
\* and 0 <= j < 8; so evaluating the to_be_bytes / to_le_bytes circuit on a
\* native input a yields the bytes of a.to_be_bytes() / a.to_le_bytes().
C8_BytePlacement ==
    op = "convert_bytes" =>
        LET M == Len(arg.x) \div 8
        IN  /\ Len(ret.be) = M
            /\ Len(ret.le) = M
            /\ \A i \in 0..(M - 1) :
                  /\ Len(ret.be[i + 1]) = 8
                  /\ Len(ret.le[i + 1]) = 8
                  /\ \A j \in 0..7 :
                        /\ ret.be[i + 1][j + 1] = arg.x[((M - i - 1) * 8 + j) + 1]
                        /\ ret.le[i + 1][j + 1] = arg.x[(i * 8 + j) + 1]
                  /\ EvalByte(arg.tag, arg.x, arg.a, ret.be[i + 1])
                        = Native_to_be_bytes(arg.a)[i + 1]
                  /\ EvalByte(arg.tag, arg.x, arg.a, ret.le[i + 1])
                        = Native_to_le_bytes(arg.a)[i + 1]

\* The bytes of a u128 wire value have been taken for a native input whose
\* first and last bytes differ.
C8_Witness ==
    /\ op = "convert_bytes"
    /\ arg.tag = "U128"
    /\ Len(ret.be) = 16
    /\ arg.a[1] # arg.a[16]
    /\ EvalByte(arg.tag, arg.x, arg.a, ret.be[1]) = arg.a[16]

-----------------------------------------------------------------------------
(* Properties of shift_left and of Vec::new_bin_repr *)

\* Two representations of the same structure: the same variant at every
\* position and the same number of elements in every array.
RECURSIVE SameStructure(_, _)
SameStructure(a, b) ==
    /\ a.tag = b.tag
    /\ IF a.tag = "Array"
       THEN /\ Len(a.elems) = Len(b.elems)
            /\ \A i \in 1..Len(a.elems) : SameStructure(a.elems[i], b.elems[i])
       ELSE Len(a.nodes) = Len(b.nodes)

\* C9 -- Shape-preserving shift: r.shift_left(k) leaves r.len() and
\* r.value_type() unchanged, applies the node handle's shift by k exactly
\* once to every leaf node (nested array leaves included), and keeps the
\* leaves in the same structural positions.
C9_ShiftPreservesShape ==
    op = "shift_left" =>
        /\ BinaryRepr_len(ret) = BinaryRepr_len(arg.repr)
        /\ BinaryRepr_value_type(ret) = BinaryRepr_value_type(arg.repr)
        /\ SameStructure(ret, arg.repr)
        /\ LET before == BinaryRepr_iter(arg.repr)
           IN  BinaryRepr_iter(ret)
                  = [p \in 1..Len(before) |-> Node_shift_left(before[p], arg.offset)]

\* An array of two arrays of u8 has been shifted by a positive offset.
C9_Witness ==
    /\ op = "shift_left"
    /\ arg.offset > 0
    /\ arg.repr.tag = "Array"
    /\ Len(arg.repr.elems) = 2
    /\ arg.repr.elems[2].tag = "Array"
    /\ Len(arg.repr.elems[2].elems) = 2
    /\ arg.repr.elems[2].elems[2].tag = "U8"
    /\ ret.elems[2].elems[2].nodes[8]
          = Node_shift_left(arg.repr.elems[2].elems[2].nodes[8], arg.offset)

\* C10 -- For Vec<T> of a scalar T of width W, new_bin_repr(nodes) returns,
\* for every slice, either Ok(repr) or Err(InvalidLength); it fails with
\* InvalidLength whenever nodes.len() is not a whole number of elements; and
\* when it returns Ok every element holds exactly W nodes taken from
\* consecutive positions of the slice.
C10_VecNewBinRepr ==
    op = "vec_new_bin_repr" =>
        LET W == BitLen(arg.tag)
        IN  /\ \/ IsOk(ret)
               \/ IsErr(ret) /\ ret.err.type = "InvalidLength"
            /\ Len(arg.nodes) % W # 0 =>
                  (IsErr(ret) /\ ret.err.type = "InvalidLength")
            /\ IsOk(ret) =>
                  \A i \in 1..Len(ret.val) :
                     /\ Len(ret.val[i].nodes) = W
                     /\ \A j \in 1..W :
                           ret.val[i].nodes[j] = arg.nodes[(i - 1) * W + j]

-----------------------------------------------------------------------------
(* Properties of narrowing *)

\* The result is Err(TypeError::UnexpectedType{..}).
IsUnexpectedTypeErr(r) == r.kind = "Err" /\ r.err.type = "UnexpectedType"

\* value is an Array whose elements are all the tag variant.
IsArrayOf(value, tag) ==
    /\ value.tag = "Array"
    /\ \A i \in 1..Len(value.elems) : value.elems[i].tag = tag

\* value is an Array of exactly N elements, all the tag variant.
IsArrayOfExactly(value, tag, N) ==
    IF value.tag = "Array" THEN Len(value.elems) = N /\ IsArrayOf(value, tag) ELSE FALSE

\* C11 -- Narrowing a Value to a native type of a different shape fails with
\* UnexpectedType: T::try_from fails unless the value is the T variant;
\* <[T; N]>::try_from fails unless the value is an Array of exactly N
\* elements that are all the T variant; Vec::<T>::try_from fails unless the
\* value is an Array whose elements are all the T variant.
C11_NarrowingFails ==
    /\ (op = "try_from" /\ arg.value.tag # arg.tag)
            => IsUnexpectedTypeErr(ret)
    /\ (op = "try_from_array" /\ ~IsArrayOfExactly(arg.value, arg.tag, arg.N))
            => IsUnexpectedTypeErr(ret)
    /\ (op = "try_from_vec" /\ ~IsArrayOf(arg.value, arg.tag))
            => IsUnexpectedTypeErr(ret)

-----------------------------------------------------------------------------
(* Properties of ^ on arrays of different lengths *)

\* c is a combined with b pair by pair: the variant of a, for arrays as many
\* elements as the shorter of a and b, element i made of a[i] and b[i], and
\* every bit of a scalar leaf set exactly when the bits of a and b differ.
RECURSIVE IsPairwiseXor(_, _, _)
IsPairwiseXor(c, a, b) ==
    /\ c.tag = a.tag
    /\ CASE a.tag = "Bit" -> c.v = (a.v # b.v)
         [] a.tag = "Array" ->
              /\ Len(c.elems) = ZipLen(a.elems, b.elems)
              /\ \A i \in 1..Len(c.elems) :
                    IsPairwiseXor(c.elems[i], a.elems[i], b.elems[i])
         [] OTHER ->
              /\ Len(c.v) = Len(a.v)
              /\ \A d \in 1..Len(a.v) : \A j \in 0..7 :
                    BitOf(c.v[d], j) = (BitOf(a.v[d], j) # BitOf(b.v[d], j))

\* a and b are arrays of different lengths.
DifferentLengths(a, b) ==
    IF a.tag = "Array" /\ b.tag = "Array" THEN Len(a.elems) # Len(b.elems) ELSE FALSE

\* The variants of a and b match, and so do those of the elements paired by
\* zip at every level of nesting.
RECURSIVE PairsMatch(_, _)
PairsMatch(a, b) ==
    /\ a.tag = b.tag
    /\ a.tag = "Array" =>
          \A i \in 1..ZipLen(a.elems, b.elems) : PairsMatch(a.elems[i], b.elems[i])

\* r is Ok of the array of the pairwise combinations of a and b.
IsTruncatedXor(r, a, b) ==
    /\ IsOk(r)
    /\ r.val.tag = "Array"
    /\ Len(r.val.elems) = ZipLen(a.elems, b.elems)
    /\ IsPairwiseXor(r.val, a, b)

\* C12 as stated -- for two arrays a and b of different lengths whose paired
\* elements a[i], b[i] have matching variants, a ^ b returns Ok(Array) of
\* length min(len(a), len(b)) whose element i is a[i] ^ b[i], and no error.
C12_Original ==
    (/\ op = "bitxor"
     /\ DifferentLengths(arg.self, arg.rhs)
     /\ \A i \in 1..ZipLen(arg.self.elems, arg.rhs.elems) :
            arg.self.elems[i].tag = arg.rhs.elems[i].tag) =>
        /\ IsTruncatedXor(ret.val_val, arg.self, arg.rhs)
        /\ IsTruncatedXor(ret.ref_ref, arg.self, arg.rhs)
        /\ IsTruncatedXor(ret.val_ref, arg.self, arg.rhs)
        /\ IsTruncatedXor(ret.ref_val, arg.self, arg.rhs)

\* C12 -- for two arrays a and b of different lengths whose paired elements
\* have matching variants at every level of nesting (the elements of paired
\* arrays, paired by zip, match in turn), a ^ b returns Ok(Array) of length
\* min(len(a), len(b)) whose element i is a[i] ^ b[i]; the extra elements of
\* the longer operand are dropped and no error is returned.
C12_TruncatingXor ==
    (/\ op = "bitxor"
     /\ DifferentLengths(arg.self, arg.rhs)
     /\ PairsMatch(arg.self, arg.rhs)) =>
        /\ IsTruncatedXor(ret.val_val, arg.self, arg.rhs)
        /\ IsTruncatedXor(ret.ref_ref, arg.self, arg.rhs)
        /\ IsTruncatedXor(ret.val_ref, arg.self, arg.rhs)
        /\ IsTruncatedXor(ret.ref_val, arg.self, arg.rhs)

\* An array of two u16 has been combined with an array of one u16: the result
\* holds one element, which differs from both first elements.
C12_Witness ==
    /\ op = "bitxor"
    /\ DifferentLengths(arg.self, arg.rhs)
    /\ Len(arg.self.elems) = 2
    /\ Len(arg.rhs.elems) = 1
    /\ arg.self.elems[1].tag = "U16"
    /\ arg.rhs.elems[1].tag = "U16"
    /\ IsOk(ret.val_val)
    /\ Len(ret.val_val.val.elems) = 1
    /\ ret.val_val.val.elems[1].v # arg.self.elems[1].v
    /\ ret.val_val.val.elems[1].v # arg.rhs.elems[1].v

-----------------------------------------------------------------------------
(* Properties of iteration *)

\* C13 -- Structural node order: for a type t and a node slice of length
\* t.len() for which t.to_bin_repr(nodes) returns Ok(r), r.iter() yields
\* exactly r.len() node handles, and they are the nodes of the slice in the
\* same order (position p of the flattened representation is nodes[p]); two
\* separate calls of r.iter() yield the same sequence.
C13_NodeOrder ==
    op = "iter" =>
        /\ Len(ret.first) = BinaryRepr_len(arg.repr)
        /\ Len(ret.first) = Len(arg.nodes)
        /\ \A p \in 1..Len(arg.nodes) : ret.first[p] = arg.nodes[p]
        /\ ret.second = ret.first

\* The representation of an array of two arrays of two u8 has been iterated:
\* 32 nodes, those of the second inner array after those of the first.
C13_Witness ==
    /\ op = "iter"
    /\ arg.ty = Array(Array(Scalar("U8"), 2), 2)
    /\ Len(ret.first) = 32
    /\ ret.first[17] = arg.repr.elems[2].elems[1].nodes[1]
    /\ ret.first[17] # ret.first[1]

-----------------------------------------------------------------------------
(* Properties of decoding arrays *)

\* v is a non-empty, homogeneous array, and so is every array nested in it:
\* it holds an element, its elements have the shape of the first, and those
\* that are arrays are non-empty and homogeneous in turn.
RECURSIVE IsNonEmptyHomogeneous(_)
IsNonEmptyHomogeneous(v) ==
    IF v.tag # "Array"
    THEN FALSE
    ELSE /\ Len(v.elems) > 0
         /\ \A i \in 1..Len(v.elems) :
               /\ SameShape(v.elems[i], v.elems[1])
               /\ v.elems[i].tag = "Array" => IsNonEmptyHomogeneous(v.elems[i])

\* C14 -- Nested-array round-trip: for a value v that is a non-empty,
\* homogeneous (possibly nested) array, with r the representation that
\* v.value_type().to_bin_repr makes from a node slice of the right length,
\* r.from_bin_repr(bits of v.into_iter_lsb0()) returns Ok of a value equal to
\* v; element i is decoded from the contiguous bit range [i*w, (i+1)*w), w
\* the bit length of an element, which holds the bits into_iter_lsb0 yields
\* for element i.
C14_NestedRoundTrip ==
    (op = "round_trip" /\ IsNonEmptyHomogeneous(arg.value)) =>
        /\ IsOk(ret.repr)
        /\ IsOkValue(ret.value, arg.value)
        /\ LET w == Len(into_iter_lsb0(arg.value.elems[1]))
           IN  /\ w = BinaryRepr_len(ret.repr.val.elems[1])
               /\ \A i \in 1..Len(arg.value.elems) :
                     LET range == SubSeq(arg.bits, (i - 1) * w + 1, i * w)
                     IN  /\ range = into_iter_lsb0(arg.value.elems[i])
                         /\ IsOkValue(from_bin_repr(ret.repr.val.elems[i], range),
                                      ret.value.val.elems[i])

\* An array of two arrays of two u16, the four of them different, has been
\* encoded and decoded.
C14_Witness ==
    /\ op = "round_trip"
    /\ IsNonEmptyHomogeneous(arg.value)
    /\ Len(arg.value.elems) = 2
    /\ arg.value.elems[1].tag = "Array"
    /\ Len(arg.value.elems[1].elems) = 2
    /\ arg.value.elems[1].elems[1].tag = "U16"
    /\ arg.value.elems[1].elems[1].v # arg.value.elems[1].elems[2].v
    /\ arg.value.elems[1].elems[1].v # arg.value.elems[2].elems[1].v
    /\ arg.value.elems[2].elems[1].v # arg.value.elems[2].elems[2].v
    /\ Len(arg.bits) = 64
    /\ IsOk(ret.value)

=============================================================================
